---- MODULE Spec2Model ----
(***************************************************************************)
(* Data status of dvc (dvc/repo/data.py): the change classifier _diff, the *)
(* SCM status adapter _git_info, the two comparers, the path translator    *)
(* _transform_git_paths_to_dvc and the aggregator status().                *)
(*                                                                         *)
(* Strings are sequences of one-character strings, so that startswith,     *)
(* slicing, rstrip and split act on characters as they do in Python.       *)
(* The platform is POSIX (os.name = "posix", os.sep = "/").                *)
(***************************************************************************)
EXTENDS Integers, Sequences, FiniteSets, TLC

(***************************************************************************)
(* Bounds of the model.                                                    *)
(***************************************************************************)
\* longest list of paths the SCM backend reports / the translator is given
MaxFiles == 2
\* most states the revision-state iterator yields for one requested head
MaxRevs == 2

(***************************************************************************)
(* Python values.                                                          *)
(***************************************************************************)
None == "None"

os_name == "posix"
os_sep == "/"
posixpath_sep == "/"
os_curdir == <<".">>
os_pardir == <<".", ".">>

Range(s) == {s[i] : i \in DOMAIN s}

\* all sequences over S of length at most n
SeqsUpTo(S, n) == UNION {[1..k -> S] : k \in 0..n}

\* str.startswith
startswith(s, p) == Len(s) >= Len(p) /\ SubSeq(s, 1, Len(p)) = p

\* str.rstrip(ch)
RECURSIVE rstrip(_, _)
rstrip(s, ch) ==
    IF s # <<>> /\ s[Len(s)] = ch THEN rstrip(SubSeq(s, 1, Len(s) - 1), ch) ELSE s

\* str.split(ch): the components between the separators, empty ones kept
RECURSIVE splitFrom(_, _, _)
splitFrom(s, ch, cur) ==
    IF s = <<>> THEN <<cur>>
    ELSE IF Head(s) = ch THEN <<cur>> \o splitFrom(Tail(s), ch, <<>>)
    ELSE splitFrom(Tail(s), ch, Append(cur, Head(s)))

split(s, ch) == splitFrom(s, ch, <<>>)

\* ch.join(parts)
RECURSIVE join(_, _)
join(parts, ch) ==
    IF parts = <<>> THEN <<>>
    ELSE IF Len(parts) = 1 THEN parts[1]
    ELSE parts[1] \o <<ch>> \o join(Tail(parts), ch)

\* str.replace(a, b) for one-character a and b
replace(s, a, b) == [i \in DOMAIN s |-> IF s[i] = a THEN b ELSE s[i]]

(***************************************************************************)
(* posixpath: normpath of an absolute path (as its list of components),    *)
(* abspath against the process's current directory, and relpath.           *)
(***************************************************************************)
RECURSIVE normcomps(_, _)
normcomps(parts, acc) ==
    IF parts = <<>> THEN acc
    ELSE IF Head(parts) = <<>> \/ Head(parts) = os_curdir
         THEN normcomps(Tail(parts), acc)
    ELSE IF Head(parts) = os_pardir
         THEN normcomps(Tail(parts),
                        IF acc = <<>> THEN acc ELSE SubSeq(acc, 1, Len(acc) - 1))
    ELSE normcomps(Tail(parts), Append(acc, Head(parts)))

\* the components of abspath(path), cwd being the absolute current directory
abspath(path, cwd) ==
    IF startswith(path, <<os_sep>>)
    THEN normcomps(split(path, os_sep), <<>>)
    ELSE normcomps(split(cwd, os_sep) \o split(path, os_sep), <<>>)

RECURSIVE commonprefix(_, _)
commonprefix(a, b) ==
    IF a = <<>> \/ b = <<>> \/ Head(a) # Head(b) THEN 0
    ELSE 1 + commonprefix(Tail(a), Tail(b))

\* os.path.relpath(path, start) in a process whose current directory is cwd
relpath(path, start, cwd) ==
    LET start_list == abspath(start, cwd)
        path_list == abspath(path, cwd)
        i == commonprefix(start_list, path_list)
        rel_list == [k \in 1..(Len(start_list) - i) |-> os_pardir]
                      \o SubSeq(path_list, i + 1, Len(path_list))
    IN IF rel_list = <<>> THEN os_curdir ELSE join(rel_list, os_sep)

posixpath_to_os_path(path) == replace(path, posixpath_sep, os_sep)

(***************************************************************************)
(* Snapshots (DataIndex) and change records.                               *)
(*                                                                         *)
(* An entry carries a content hash (hash_info, None when it has none) and  *)
(* its meta (None, or a file/directory flag); its odb is the repository's  *)
(* object store.  NoEntry stands for "no entry under this key".            *)
(***************************************************************************)
Kd == << <<"d">> >>
Kf == << <<"d">>, <<"f">> >>
Keys == {Kd, Kf}

Hashes == {"h1", "h2"}
Metas == {None, "file", "dir"}

NoEntry == [hash_info |-> "absent", meta |-> "absent"]
Entries == [hash_info : Hashes \cup {None}, meta : Metas]
Snapshots == [Keys -> Entries \cup {NoEntry}]

\* truthiness of change.old / change.new, of entry.hash_info and entry.meta
present(entry) == entry # NoEntry
has_hash(entry) == entry.hash_info # None
has_meta(entry) == entry.meta # None

\* dvc_data.index.diff: the kinds of a change record
ADD == "add"
DELETE == "delete"
MODIFY == "modify"
UNCHANGED_TYP == "unchanged"
UNKNOWN == "unknown"

VARIABLES
    pc,      \* control state of the call under way
    repo,    \* the repository: snapshots, object store, directories, revisions
    scm,     \* the source-control backend and what its queries answer
    args,    \* the arguments of the call under way
    local,   \* status(): its local variables
    ret,     \* what the call returned, or the exception it raised
    prev     \* status(): the report of the previous computation

vars == <<pc, repo, scm, args, local, ret, prev>>

(***************************************************************************)
(* Dictionaries: functions whose domain is the set of keys.                *)
(***************************************************************************)
EmptyDict == [k \in {} |-> <<>>]

\* dict.get(key, default)
get(d, key, default) == IF key \in DOMAIN d THEN d[key] ELSE default

\* the dictionary left by dict.pop(key, default)
popped(d, key) == [k \in (DOMAIN d) \ {key} |-> d[k]]

(***************************************************************************)
(* The tree-diff primitive diff(old, new, with_unchanged=True, shallow,    *)
(* hash_only=True, with_unknown=True): one record per key either snapshot  *)
(* holds, in the primitive's iteration order repo.order.  A key of         *)
(* repo.unknown is one whose comparison the primitive could not decide.    *)
(* A shallow diff does not descend into a directory whose hash is the      *)
(* same on both sides.                                                     *)
(***************************************************************************)
is_parent(p, k) == Len(p) < Len(k) /\ SubSeq(k, 1, Len(p)) = p

same_dir(old, new, p) ==
    /\ present(old[p]) /\ present(new[p])
    /\ has_hash(old[p]) /\ old[p].hash_info = new[p].hash_info

diff_typ(old, new, k) ==
    IF k \in repo.unknown THEN UNKNOWN
    ELSE IF ~present(old[k]) THEN ADD
    ELSE IF ~present(new[k]) THEN DELETE
    ELSE IF old[k].hash_info # new[k].hash_info THEN MODIFY
    ELSE UNCHANGED_TYP

diff_yields(old, new, shallow, k) ==
    /\ present(old[k]) \/ present(new[k]) \/ k \in repo.unknown
    /\ ~(shallow /\ \E p \in Keys : is_parent(p, k) /\ p \notin repo.unknown
                                     /\ same_dir(old, new, p))

RECURSIVE diff_from(_, _, _, _)
diff_from(old, new, shallow, order) ==
    IF order = <<>> THEN <<>>
    ELSE LET k == Head(order)
             rest == diff_from(old, new, shallow, Tail(order))
         IN IF diff_yields(old, new, shallow, k)
            THEN <<[key |-> k, old |-> old[k], new |-> new[k],
                    typ |-> diff_typ(old, new, k)]>> \o rest
            ELSE rest

diff(old, new, shallow) == diff_from(old, new, shallow, repo.order)

\* change.old.odb.exists(change.old.hash_info.value)
odb_exists(entry) == entry.hash_info \in repo.odb

(***************************************************************************)
(* The change classifier.                                                  *)
(***************************************************************************)
\* the kinds passed through under the primitive's own names
_adapt_typ_raw(typ) == typ

_adapt_typ(typ) ==
    IF typ = MODIFY THEN "modified"
    ELSE IF typ = ADD THEN "added"
    ELSE IF typ = DELETE THEN "deleted"
    ELSE typ

_adapt_path(change) ==
    LET isdir == IF present(change.new) /\ has_meta(change.new)
                 THEN change.new.meta = "dir"
                 ELSE IF present(change.old) /\ has_meta(change.old)
                 THEN change.old.meta = "dir"
                 ELSE FALSE
        key == IF isdir THEN Append(change.key, <<>>) ELSE change.key
    IN join(key, os_sep)

\* the path put at the front of its bucket
_add_change_front(d, typ, change) ==
    LET t == _adapt_typ(typ)
        d1 == IF t \notin DOMAIN d THEN d @@ (t :> <<>>) ELSE d
    IN [d1 EXCEPT ![t] = <<_adapt_path(change)>> \o @]

_add_change(d, typ, change) ==
    LET t == _adapt_typ(typ)
        d1 == IF t \notin DOMAIN d THEN d @@ (t :> <<>>) ELSE d
    IN [d1 EXCEPT ![t] = Append(@, _adapt_path(change))]

\* the first suppression left out
skip_unchanged_never(change) == FALSE

\* the first suppression: an unchanged pair of entries neither of which has a hash
skip_unchanged(change) ==
    /\ change.typ = UNCHANGED_TYP
    /\ present(change.old)
    /\ present(change.new)
    /\ ~has_hash(change.old)
    /\ ~has_hash(change.new)

\* the second suppression: an unknown record without a new entry
skip_unknown(change) == change.typ = UNKNOWN /\ ~present(change.new)

\* the missing-cache test with the with_missing flag ignored
is_missing_unflagged(with_missing, change) ==
    /\ present(change.old)
    /\ has_hash(change.old)
    /\ ~odb_exists(change.old)

\* the test of the missing-cache pass
is_missing(with_missing, change) ==
    /\ with_missing
    /\ present(change.old)
    /\ has_hash(change.old)
    /\ ~odb_exists(change.old)

\* one turn of the loop with not_in_cache taking the place of the kind bucket
_diff_change_exclusive(d, with_missing, change) ==
    IF skip_unchanged(change) THEN d
    ELSE IF skip_unknown(change) THEN d
    ELSE IF is_missing(with_missing, change)
         THEN _add_change(d, "not_in_cache", change)
    ELSE _add_change(d, change.typ, change)

\* one turn of the loop over the change records
_diff_change(d, with_missing, change) ==
    IF skip_unchanged(change) THEN d
    ELSE IF skip_unknown(change) THEN d
    ELSE LET d1 == IF is_missing(with_missing, change)
                   THEN _add_change(d, "not_in_cache", change)
                   ELSE d
         IN _add_change(d1, change.typ, change)

RECURSIVE _diff_loop(_, _, _)
_diff_loop(d, with_missing, changes) ==
    IF changes = <<>> THEN d
    ELSE _diff_loop(_diff_change(d, with_missing, Head(changes)),
                    with_missing, Tail(changes))

_diff(old, new, granular, with_missing) ==
    _diff_loop(EmptyDict, with_missing, diff(old, new, ~granular))

(***************************************************************************)
(* Outcomes of a call: a returned value or a raised exception.             *)
(***************************************************************************)
Ok(v) == [exc |-> None, value |-> v]
Raise(e) == [exc |-> e, value |-> None]
raised(r) == r.exc # None

\* the failures the collaborators raise: the no-commits failure is an SCMError,
\* the no-backend failure a NoSCMError; OSError stands for any other failure
ScmFailures == {"SCMError", "NoSCMError"}
OtherFailures == {"OSError"}

\* an except clause that catches every failure
status_catches_all(e) == TRUE

\* the except clause of status(): except (SCMError, NoSCMError)
status_catches(e) == e \in {"SCMError", "NoSCMError"}

\* an except clause that catches every failure
git_info_catches_all(e) == TRUE

\* the except clause of _git_info(): except SCMError
git_info_catches(e) == e = "SCMError"

(***************************************************************************)
(* The SCM status adapter.                                                 *)
(***************************************************************************)
\* any([staged, unstaged, untracked])
truthy(c) == DOMAIN c # {}

\* scm.status(untracked_files=...): the backend lists untracked files unless
\* the policy is "no"
scm_status(untracked_files) ==
    IF scm.status_exc # None THEN Raise(scm.status_exc)
    ELSE Ok(<<scm.staged, scm.unstaged,
              IF untracked_files = "no" THEN <<>> ELSE scm.untracked>>)

_git_info(untracked_files) ==
    IF scm.kind = "NoSCM" THEN Ok(EmptyDict)
    ELSE IF scm.get_rev # None /\ ~git_info_catches(scm.get_rev)
         THEN Raise(scm.get_rev)
    ELSE LET empty_repo == scm.get_rev # None
             st == scm_status(untracked_files)
         IN IF raised(st) THEN st
            ELSE LET staged == st.value[1]
                     unstaged == st.value[2]
                     untracked == IF os_name = "nt"
                                  THEN [i \in DOMAIN st.value[3] |->
                                           posixpath_to_os_path(st.value[3][i])]
                                  ELSE st.value[3]
                 IN Ok([staged |-> staged,
                        unstaged |-> unstaged,
                        untracked |-> untracked,
                        is_empty |-> empty_repo,
                        is_dirty |-> truthy(staged) \/ truthy(unstaged)
                                        \/ truthy(untracked)])

(***************************************************************************)
(* The workspace comparer and the commit comparer.                         *)
(***************************************************************************)
\* build_data_index(repo.index, repo.root_dir, repo.fs, compute_hash=True)
build_data_index ==
    IF repo.wtree_exc # None THEN Raise(repo.wtree_exc) ELSE Ok(repo.wtree)

_diff_index_to_wtree(granular) ==
    LET workspace == build_data_index
    IN IF raised(workspace) THEN workspace
       ELSE Ok(_diff(repo.index, workspace.value, granular, TRUE))

\* repo.index.data["repo"] while the revision-state iterator is at rev
index_at(rev) == IF rev = "workspace" THEN repo.index ELSE repo.head

\* the loop with the workspace state read like a revision
RECURSIVE _head_loop_unskipped(_, _)
_head_loop_unskipped(revs, head_index) ==
    IF revs = <<>> THEN head_index
    ELSE _head_loop_unskipped(Tail(revs), <<index_at(Head(revs))>>)

\* the loop over repo.brancher(revs=[head]); head_index is <<>> while unbound
RECURSIVE _head_loop(_, _)
_head_loop(revs, head_index) ==
    IF revs = <<>> THEN head_index
    ELSE IF Head(revs) = "workspace" THEN _head_loop(Tail(revs), head_index)
    ELSE _head_loop(Tail(revs), <<index_at(Head(revs))>>)

_diff_head_to_index(granular) ==
    LET index == index_at("workspace")
        head_index == _head_loop(repo.brancher.yields, <<>>)
    IN IF repo.brancher.exc # None THEN Raise(repo.brancher.exc)
       ELSE IF head_index = <<>> THEN Raise("UnboundLocalError")
       ELSE Ok(_diff(head_index[1], index, granular, FALSE))

(***************************************************************************)
(* The path translator.                                                    *)
(***************************************************************************)
RECURSIVE strip_prefix(_, _)
strip_prefix(files, prefix) ==
    IF files = <<>> THEN <<>>
    ELSE IF startswith(Head(files), prefix)
         THEN <<SubSeq(Head(files), Len(prefix) + 1, Len(Head(files)))>>
                 \o strip_prefix(Tail(files), prefix)
    ELSE strip_prefix(Tail(files), prefix)

_transform_git_paths_to_dvc(files) ==
    LET rel == rstrip(relpath(repo.root_dir, repo.scm_root_dir, repo.cwd), "/")
        files1 == IF rel \notin {os_curdir, <<>>}
                  THEN strip_prefix(files, rel \o <<os_sep>>)
                  ELSE files
        start == relpath(repo.cwd, repo.root_dir, repo.cwd)
    IN IF start \in {os_curdir, <<>>} THEN files1
       ELSE [i \in DOMAIN files1 |-> relpath(files1[i], start, repo.cwd)]

(***************************************************************************)
(* The repositories, backends and arguments the calls are made on.         *)
(***************************************************************************)
\* directories (absolute): r is the source-control root
d_r == <<"/", "r">>
d_r_s == <<"/", "r", "/", "s">>
d_r_s_i == <<"/", "r", "/", "s", "/", "i">>
d_r_a_b == <<"/", "r", "/", "a", "/", "b">>
d_r_a_b_s == <<"/", "r", "/", "a", "/", "b", "/", "s">>
d_r_a_b_s_i == <<"/", "r", "/", "a", "/", "b", "/", "s", "/", "i">>

\* paths the backend reports, relative to the source-control root
p_x == <<"x">>
p_s_x == <<"s", "/", "x">>
p_sx_x == <<"s", "x", "/", "x">>
p_s_i_x == <<"s", "/", "i", "/", "x">>
p_a_x == <<"a", "/", "x">>
p_a_b_s_x == <<"a", "/", "b", "/", "s", "/", "x">>

RootDirs == {d_r, d_r_s, d_r_a_b_s}
WorkDirs == {d_r, d_r_s, d_r_s_i, d_r_a_b, d_r_a_b_s, d_r_a_b_s_i}
GitPaths == {p_x, p_s_x, p_sx_x, p_s_i_x, p_a_x, p_a_b_s_x}

\* a snapshot whose entries are a tracked directory and a file in it
Tracked(h) == (Kd :> [hash_info |-> h, meta |-> "dir"])
                 @@ (Kf :> [hash_info |-> h, meta |-> "file"])

DefaultRepo ==
    [index |-> Tracked("h1"), head |-> Tracked("h1"), wtree |-> Tracked("h1"),
     odb |-> Hashes, unknown |-> {}, order |-> <<Kd, Kf>>,
     root_dir |-> d_r, scm_root_dir |-> d_r, cwd |-> d_r,
     brancher |-> [yields |-> <<"workspace", "HEAD">>, exc |-> None],
     wtree_exc |-> None]

DefaultScm ==
    [kind |-> "Git", get_rev |-> None, status_exc |-> None,
     staged |-> EmptyDict, unstaged |-> EmptyDict, untracked |-> <<>>]

NoLocal == [uncommitted_diff |-> EmptyDict, not_in_cache |-> <<>>,
            unchanged |-> {}, committed_diff |-> EmptyDict]

\* the orders in which the diff primitive may walk the keys
Orders == {<<Kd, Kf>>, <<Kf, Kd>>}

\* what the backend may answer for staged and for unstaged
ScmChanges == {EmptyDict, "modify" :> <<p_x>>}

Idle == /\ local = NoLocal
        /\ ret = Ok(None)
        /\ prev = <<>>

(***************************************************************************)
(* SpecPaths: _transform_git_paths_to_dvc on every list of reported paths, *)
(* data-repo root and current directory.                                   *)
(***************************************************************************)
InitPaths ==
    /\ pc = "call"
    /\ \E root \in RootDirs, cwd \in WorkDirs :
          repo = [DefaultRepo EXCEPT !.root_dir = root, !.cwd = cwd]
    /\ scm = DefaultScm
    /\ args \in [files : SeqsUpTo(GitPaths, MaxFiles)]
    /\ Idle

CallTransform ==
    /\ pc = "call"
    /\ ret' = Ok(_transform_git_paths_to_dvc(args.files))
    /\ pc' = "returned"
    /\ UNCHANGED <<repo, scm, args, local, prev>>

NextPaths == CallTransform

SpecPaths == InitPaths /\ [][NextPaths]_vars

(***************************************************************************)
(* SpecGit: _git_info on every backend.                                    *)
(***************************************************************************)
Backends ==
    {DefaultScm} \cup
    {[kind |-> k, get_rev |-> g, status_exc |-> e,
      staged |-> s, unstaged |-> u, untracked |-> t] :
        k \in {"Git", "NoSCM"},
        g \in {None, "SCMError"} \cup OtherFailures,
        e \in {None} \cup OtherFailures,
        s \in ScmChanges, u \in ScmChanges,
        t \in SeqsUpTo({p_x, p_s_x}, MaxFiles)}

InitGit ==
    /\ pc = "call"
    /\ repo = DefaultRepo
    /\ scm \in Backends
    /\ args \in [untracked_files : {"no", "all"}]
    /\ Idle

CallGitInfo ==
    /\ pc = "call"
    /\ ret' = _git_info(args.untracked_files)
    /\ pc' = IF raised(ret') THEN "raised" ELSE "returned"
    /\ UNCHANGED <<repo, scm, args, local, prev>>

NextGit == CallGitInfo

SpecGit == InitGit /\ [][NextGit]_vars

(***************************************************************************)
(* SpecDiff: _diff on every pair of snapshots, object store and flags.     *)
(***************************************************************************)
\* the object stores, up to the naming of the hashes
Stores == {{}, {"h1"}, Hashes}

InitDiff ==
    /\ pc = "call"
    /\ \E o \in Stores, u \in SUBSET Keys :
          repo = [DefaultRepo EXCEPT !.odb = o, !.unknown = u]
    /\ scm = DefaultScm
    /\ args \in [old : Snapshots, new : Snapshots,
                 granular : BOOLEAN, with_missing : BOOLEAN]
    /\ Idle

CallDiff ==
    /\ pc = "call"
    /\ ret' = Ok(_diff(args.old, args.new, args.granular, args.with_missing))
    /\ pc' = "returned"
    /\ UNCHANGED <<repo, scm, args, local, prev>>

NextDiff == CallDiff

SpecDiff == InitDiff /\ [][NextDiff]_vars

(***************************************************************************)
(* Spec: status(), computed twice over the same repository and backend.    *)
(*                                                                         *)
(* The steps of one computation: the index-vs-workspace comparison, the    *)
(* head-vs-index comparison, then the SCM status, the translation of the   *)
(* untracked paths and the assembly of the report.                         *)
(***************************************************************************)
\* list(unchanged): the elements of a set of strings in the order the set's
\* hash table holds them, which the interpreter's hash seed decides
Listings(S) == {f \in [1..Cardinality(S) -> S] : Range(f) = S}

\* the intersection with the committed unchanged bucket left out
merge_unchanged_kept(unchanged, committed_diff) == unchanged

\* unchanged &= set(committed_diff.pop("unchanged", []))
merge_unchanged(unchanged, committed_diff) ==
    unchanged \cap Range(get(committed_diff, "unchanged", <<>>))

StatusUncommitted ==
    /\ pc = "start"
    /\ LET r == _diff_index_to_wtree(args.granular)
       IN IF raised(r)
          THEN /\ pc' = "raised"
               /\ ret' = r
               /\ UNCHANGED local
          ELSE /\ pc' = "uncommitted"
               /\ local' = [local EXCEPT
                     !.not_in_cache = get(r.value, "not_in_cache", <<>>),
                     !.unchanged = Range(get(r.value, "unchanged", <<>>)),
                     !.uncommitted_diff =
                         popped(popped(r.value, "not_in_cache"), "unchanged")]
               /\ UNCHANGED ret
    /\ UNCHANGED <<repo, scm, args, prev>>

StatusCommitted ==
    /\ pc = "uncommitted"
    /\ LET r == _diff_head_to_index(args.granular)
       IN IF raised(r) /\ status_catches(r.exc)
          THEN /\ pc' = "committed"
               /\ local' = [local EXCEPT !.committed_diff = EmptyDict]
               /\ UNCHANGED ret
          ELSE IF raised(r)
          THEN /\ pc' = "raised"
               /\ ret' = r
               /\ UNCHANGED local
          ELSE /\ pc' = "committed"
               /\ local' = [local EXCEPT
                     !.unchanged = merge_unchanged(@, r.value),
                     !.committed_diff = popped(r.value, "unchanged")]
               /\ UNCHANGED ret
    /\ UNCHANGED <<repo, scm, args, prev>>

StatusReturn ==
    /\ pc = "committed"
    /\ LET git_info == _git_info(args.untracked_files)
       IN IF raised(git_info)
          THEN /\ pc' = "raised"
               /\ ret' = git_info
          ELSE /\ pc' = "done"
               /\ \E unchanged \in Listings(local.unchanged) :
                     ret' = Ok([not_in_cache |-> local.not_in_cache,
                                committed |-> local.committed_diff,
                                uncommitted |-> local.uncommitted_diff,
                                untracked |-> _transform_git_paths_to_dvc(
                                    get(git_info.value, "untracked", <<>>)),
                                unchanged |-> unchanged,
                                git |-> git_info.value])
    /\ UNCHANGED <<repo, scm, args, local, prev>>

\* status() is computed once more over the same repository and backend
StatusAgain ==
    /\ pc = "done"
    /\ prev = <<>>
    /\ prev' = <<ret.value>>
    /\ pc' = "start"
    /\ local' = NoLocal
    /\ ret' = Ok(None)
    /\ UNCHANGED <<repo, scm, args>>

\* what the revision-state iterator does for the requested head: it fails,
\* or it yields some states and ends
BrancherOutcomes ==
    {[yields |-> y, exc |-> None] : y \in SeqsUpTo({"workspace", "HEAD"}, MaxRevs)}
        \cup {[yields |-> <<>>, exc |-> e] : e \in {"SCMError"} \cup OtherFailures}

NoBackend == [yields |-> <<>>, exc |-> "NoSCMError"]

\* snapshots of a directory and a file in it
TrackedSnapshots ==
    {s \in Snapshots :
        /\ s[Kd] # NoEntry => s[Kd].meta = "dir"
        /\ s[Kf] # NoEntry => s[Kf].meta = "file"}

\* every committed, staged and working-tree snapshot, with and without
\* commits, on a repository at the source-control root
InitData ==
    /\ \E i \in TrackedSnapshots, h \in TrackedSnapshots, w \in TrackedSnapshots,
          ord \in Orders,
          b \in {DefaultRepo.brancher, [yields |-> <<>>, exc |-> "SCMError"]} :
          /\ b.exc # None => h = DefaultRepo.head
          /\ repo = [DefaultRepo EXCEPT !.index = i, !.head = h, !.wtree = w,
                                        !.odb = {"h1"}, !.order = ord,
                                        !.brancher = b]
    /\ scm = [DefaultScm EXCEPT !.untracked = <<p_x>>]
    /\ args \in [granular : BOOLEAN, untracked_files : {"all"}]

\* every outcome of the revision-state iterator and of the snapshot builder,
\* on a repository whose tracked data was staged anew since the commit
InitRevs ==
    /\ \E b \in BrancherOutcomes,
          we \in {None, "SCMError"} \cup OtherFailures,
          o \in {{}, Hashes}, u \in {{}, {Kf}} :
          repo = [DefaultRepo EXCEPT !.brancher = b, !.wtree_exc = we,
                                     !.odb = o, !.unknown = u,
                                     !.head = Tracked("h2")]
    /\ scm = [DefaultScm EXCEPT !.untracked = <<p_x>>]
    /\ args \in [granular : BOOLEAN, untracked_files : {"all"}]

\* every backend and every placing of the data-repo root and the current
\* directory, on a repository whose tracked data is unmodified
InitScm ==
    /\ scm \in {g \in Backends : g.kind = "NoSCM" => g = [DefaultScm EXCEPT !.kind = "NoSCM"]}
    /\ \E dirs \in {<<d_r, d_r>>, <<d_r_s, d_r_s_i>>, <<d_r_a_b_s, d_r_a_b>>} :
          repo = [DefaultRepo EXCEPT
                     !.root_dir = dirs[1], !.cwd = dirs[2],
                     !.scm_root_dir = IF scm.kind = "NoSCM" THEN dirs[1] ELSE d_r,
                     !.brancher = IF scm.kind = "NoSCM" THEN NoBackend
                                  ELSE IF scm.get_rev = "SCMError"
                                  THEN [yields |-> <<>>, exc |-> "SCMError"]
                                  ELSE DefaultRepo.brancher]
    /\ args \in [granular : {TRUE}, untracked_files : {"no", "all"}]

Init ==
    /\ pc = "start"
    /\ InitData \/ InitRevs \/ InitScm
    /\ Idle

Next ==
    \/ StatusUncommitted
    \/ StatusCommitted
    \/ StatusReturn
    \/ StatusAgain

Spec == Init /\ [][Next]_vars

(***************************************************************************)
(* Properties of the change classifier (under SpecDiff).                   *)
(***************************************************************************)
\* the records the diff primitive yields for the call under way
Changes == diff(args.old, args.new, ~args.granular)

\* the key a rendered path belongs to
PathKey(path) == CHOOSE k \in Keys : join(k, "/") = rstrip(path, "/")

\* the paths of a bucket, none when the bucket is absent
Bucket(d, name) == IF name \in DOMAIN d THEN d[name] ELSE <<>>

NoDuplicates(seq) == \A i, j \in DOMAIN seq : seq[i] = seq[j] => i = j

\* the old entry exists, carries a hash, and the object store lacks it
OldMissing(c) ==
    /\ c.old # NoEntry
    /\ c.old.hash_info \in Hashes
    /\ c.old.hash_info \notin repo.odb

\* C3: every path of not_in_cache comes from a change record whose old entry
\* exists, carries a content hash and is reported missing by the object
\* store, each such record at most once; a record without an old entry never
\* contributes; without with_missing the bucket is never created.
C3_NotInCacheOnlyMissingOld ==
    pc = "returned" =>
        LET d == ret.value
            nic == Bucket(d, "not_in_cache")
        IN /\ ~args.with_missing => "not_in_cache" \notin DOMAIN d
           /\ NoDuplicates(nic)
           /\ \A i \in DOMAIN nic :
                 \E c \in Range(Changes) : c.key = PathKey(nic[i]) /\ OldMissing(c)

C3_Witness ==
    /\ pc = "returned"
    /\ "not_in_cache" \in DOMAIN ret.value
    /\ \E c \in Range(Changes) : c.old = NoEntry /\ c.typ = ADD

\* the path the classifier is to render for an entry under key k
EntryPath(k, entry) ==
    IF entry.meta = "dir" THEN join(k, "/") \o <<"/">> ELSE join(k, "/")

EqualSnapshots == args.old = args.new /\ args.granular

\* C4 as stated: for equal snapshots and granular=true no kind but unchanged
\* has a bucket, and unchanged holds the path of every entry exactly once,
\* the entries without a content hash included.
C4_EveryEntryUnchanged ==
    (pc = "returned" /\ EqualSnapshots /\ repo.unknown = {}) =>
        LET d == ret.value
            u == Bucket(d, "unchanged")
        IN /\ DOMAIN d \subseteq {"unchanged", "not_in_cache"}
           /\ NoDuplicates(u)
           /\ Range(u) = {EntryPath(k, args.old[k]) :
                             k \in {k \in Keys : args.old[k] # NoEntry}}

\* C4 amended: for equal snapshots all of whose entries the diff primitive
\* could compare, and granular=true, no kind but unchanged has a bucket, and
\* unchanged holds exactly once the path of every entry that carries a
\* content hash; the entries without a content hash are left out.
C4_HashedEntriesUnchanged ==
    (pc = "returned" /\ EqualSnapshots /\ repo.unknown = {}) =>
        LET d == ret.value
            u == Bucket(d, "unchanged")
        IN /\ DOMAIN d \subseteq {"unchanged", "not_in_cache"}
           /\ ~args.with_missing => DOMAIN d \subseteq {"unchanged"}
           /\ NoDuplicates(u)
           /\ Range(u) = {EntryPath(k, args.old[k]) :
                             k \in {k \in Keys : /\ args.old[k] # NoEntry
                                                 /\ args.old[k].hash_info \in Hashes}}

C4_Witness ==
    /\ pc = "returned" /\ EqualSnapshots /\ repo.unknown = {}
    /\ args.old[Kd] # NoEntry /\ args.old[Kd].hash_info = None
    /\ args.old[Kf] # NoEntry /\ args.old[Kf].hash_info \in Hashes
    /\ Len(Bucket(ret.value, "unchanged")) = 1

Vocabulary == {"added", "deleted", "modified", "not_in_cache", "unchanged"}

\* C8 as stated: every bucket name of the classifier's result is one of
\* added, deleted, modified, not_in_cache, unchanged.
C8_OnlyVocabulary ==
    pc = "returned" => DOMAIN ret.value \subseteq Vocabulary

\* C8 amended: every bucket name is one of added, deleted, modified,
\* not_in_cache, unchanged or unknown; an unknown record without a new entry
\* contributes to no bucket, and the unknown bucket holds exactly the unknown
\* records that have a new entry.
C8_VocabularyAndUnknown ==
    pc = "returned" =>
        LET d == ret.value
            unk == Bucket(d, "unknown")
        IN /\ DOMAIN d \subseteq Vocabulary \cup {"unknown"}
           /\ \A name \in DOMAIN d : d[name] # <<>>
           /\ {PathKey(unk[i]) : i \in DOMAIN unk}
                 = {c.key : c \in {c \in Range(Changes) :
                                      c.typ = UNKNOWN /\ c.new # NoEntry}}
           /\ \A c \in Range(Changes) :
                 (c.typ = UNKNOWN /\ c.new = NoEntry) =>
                     \A name \in DOMAIN d : \A i \in DOMAIN d[name] :
                         PathKey(d[name][i]) # c.key

C8_Witness ==
    /\ pc = "returned"
    /\ "unknown" \in DOMAIN ret.value
    /\ \E c \in Range(Changes) : c.typ = UNKNOWN /\ c.new = NoEntry

(***************************************************************************)
(* Properties of the SCM status adapter (under SpecGit).                   *)
(***************************************************************************)
\* the untracked paths the backend answers under the policy of the call
Answered == IF args.untracked_files = "no" THEN <<>> ELSE scm.untracked

\* C10: without a backend the empty record is returned and nothing is
\* queried; with a backend the no-commits failure of get_rev is caught,
\* gives is_empty = TRUE and the status is still queried, any other failure
\* of get_rev propagates, is_empty is FALSE when get_rev succeeds, and
\* is_dirty holds exactly when staged, unstaged or untracked is non-empty.
C10_GitInfo ==
    pc # "call" =>
        /\ scm.kind = "NoSCM" => /\ pc = "returned"
                                 /\ DOMAIN ret.value = {}
        /\ (scm.kind = "Git" /\ scm.get_rev \in OtherFailures) =>
               pc = "raised" /\ ret.exc = scm.get_rev
        /\ (scm.kind = "Git" /\ scm.get_rev \notin OtherFailures) =>
               IF scm.status_exc # None
               THEN pc = "raised" /\ ret.exc = scm.status_exc
               ELSE /\ pc = "returned"
                    /\ ret.value.is_empty = (scm.get_rev = "SCMError")
                    /\ ret.value.staged = scm.staged
                    /\ ret.value.unstaged = scm.unstaged
                    /\ ret.value.untracked = Answered
                    /\ ret.value.is_dirty =
                          (\/ scm.staged # EmptyDict
                           \/ scm.unstaged # EmptyDict
                           \/ Answered # <<>>)

C10_Witness ==
    /\ pc = "returned"
    /\ scm.kind = "Git" /\ scm.get_rev = "SCMError"
    /\ ret.value.is_empty /\ ret.value.is_dirty
    /\ scm.staged = EmptyDict /\ scm.unstaged = EmptyDict

(***************************************************************************)
(* Properties of the path translator (under SpecPaths).                    *)
(***************************************************************************)
\* the prefix P of a data-repo root strictly below the source-control root
RootPrefix == SubSeq(repo.root_dir, Len(repo.scm_root_dir) + 2, Len(repo.root_dir))

StrictSubdir == startswith(repo.root_dir, repo.scm_root_dir \o <<"/">>)

\* the path of file, which is relative to the data-repo root, as seen from
\* the current directory
RelativeToCwd(file) == relpath(repo.root_dir \o <<"/">> \o file, repo.cwd, repo.cwd)

RECURSIVE Translated(_)
Translated(files) ==
    IF files = <<>> THEN <<>>
    ELSE IF startswith(Head(files), RootPrefix \o <<"/">>)
         THEN <<RelativeToCwd(SubSeq(Head(files), Len(RootPrefix) + 2,
                                     Len(Head(files))))>>
                 \o Translated(Tail(files))
    ELSE Translated(Tail(files))

\* C6: under a data-repo root strictly below the source-control root, with
\* prefix P, the output holds in input order one path for every input path
\* that starts with P and the separator, and nothing else; each has P
\* stripped and is expressed relative to the current directory.  When the
\* data-repo root is the source-control root and the current directory, the
\* output is the input.
C6_TranslatedRelativeToCwd ==
    pc = "returned" =>
        /\ StrictSubdir => ret.value = Translated(args.files)
        /\ (repo.root_dir = repo.scm_root_dir /\ repo.cwd = repo.root_dir) =>
               ret.value = args.files

(***************************************************************************)
(* Properties of status() (under Spec).                                    *)
(***************************************************************************)
Granular == args.granular

\* the two comparisons, as the classifier answers them
UncommittedDiff == _diff(repo.index, repo.wtree, Granular, TRUE)
CommittedDiff == _diff(repo.head, repo.index, Granular, FALSE)

\* the revision-state iterator yields a concrete revision state
YieldsRevision == \E i \in DOMAIN repo.brancher.yields :
                      repo.brancher.yields[i] # "workspace"

\* the head-vs-index comparison succeeds
HeadCompared == repo.brancher.exc = None /\ YieldsRevision

\* the head-vs-index comparison fails for want of a backend or of commits
HeadUnavailable == repo.brancher.exc \in {"SCMError", "NoSCMError"}

\* C1: the report's unchanged, as a set, is the intersection of the
\* unchanged buckets of the two comparisons when the head-vs-index
\* comparison succeeded, and the unchanged bucket of the index-vs-workspace
\* comparison when it was unavailable; an absent bucket counts as empty.
C1_UnchangedIntersection ==
    pc = "done" =>
        LET unc == Range(Bucket(UncommittedDiff, "unchanged"))
            com == Range(Bucket(CommittedDiff, "unchanged"))
        IN /\ HeadCompared \/ HeadUnavailable
           /\ HeadCompared => Range(ret.value.unchanged) = unc \cap com
           /\ HeadUnavailable => Range(ret.value.unchanged) = unc

C1_Witness ==
    /\ pc = "done" /\ HeadCompared
    /\ Cardinality(Range(Bucket(UncommittedDiff, "unchanged"))) = 2
    /\ Cardinality(Range(Bucket(CommittedDiff, "unchanged"))) = 1
    /\ Len(ret.value.unchanged) = 1

\* C2: when the head-vs-index comparison fails for want of a backend or of
\* commits, the failure is not raised by status() and the report's committed
\* is the empty mapping; any other failure of that comparison, and any
\* failure of the index-vs-workspace comparison, is raised by status() and
\* no report is returned.
C2_RecoverableFailures ==
    /\ repo.wtree_exc # None =>
          /\ pc \in {"start", "raised"}
          /\ pc = "raised" => ret.exc = repo.wtree_exc
    /\ (repo.wtree_exc = None /\ HeadUnavailable) =>
          /\ pc = "raised" => /\ ret.exc \in {scm.get_rev, scm.status_exc}
                              /\ ret.exc \in OtherFailures
          /\ pc = "committed" => local.committed_diff = EmptyDict
          /\ pc = "done" => ret.value.committed = EmptyDict
    /\ (repo.wtree_exc = None /\ ~HeadUnavailable /\ ~HeadCompared) =>
          /\ pc \in {"start", "uncommitted", "raised"}
          /\ pc = "raised" =>
                ret.exc = IF repo.brancher.exc # None THEN repo.brancher.exc
                          ELSE "UnboundLocalError"

C2_Witness ==
    /\ pc = "done"
    /\ repo.brancher.exc = "SCMError"
    /\ ret.value.committed = EmptyDict
    /\ ret.value.uncommitted # EmptyDict

\* the record is not one the classifier suppresses
Reported(c) ==
    /\ ~(/\ c.typ = UNCHANGED_TYP /\ c.old # NoEntry /\ c.new # NoEntry
         /\ c.old.hash_info = None /\ c.new.hash_info = None)
    /\ ~(c.typ = UNKNOWN /\ c.new = NoEntry)

\* the name of the bucket of a change kind
KindBucket(typ) ==
    CASE typ = ADD -> "added"
      [] typ = DELETE -> "deleted"
      [] typ = MODIFY -> "modified"
      [] OTHER -> typ

HasKey(paths, k) == \E i \in DOMAIN paths : PathKey(paths[i]) = k

\* C5: in the index-vs-workspace comparison every reported record whose old
\* entry exists with a content hash the object store lacks has its path in
\* not_in_cache and in the bucket of its own kind as well; the
\* head-vs-index comparison never makes a not_in_cache bucket.
C5_MissingAndOwnKind ==
    /\ pc = "uncommitted" =>
          \A c \in Range(diff(repo.index, repo.wtree, ~Granular)) :
              (Reported(c) /\ OldMissing(c)) =>
                  /\ HasKey(local.not_in_cache, c.key)
                  /\ IF c.typ = UNCHANGED_TYP
                     THEN \E path \in local.unchanged : PathKey(path) = c.key
                     ELSE HasKey(Bucket(local.uncommitted_diff, KindBucket(c.typ)),
                                 c.key)
    /\ pc \in {"committed", "done"} =>
          "not_in_cache" \notin DOMAIN local.committed_diff

C5_Witness ==
    /\ pc = "committed" /\ HeadCompared
    /\ \E k \in Keys : repo.head[k] # NoEntry /\ repo.head[k].hash_info = "h2"
    /\ \E c \in Range(diff(repo.index, repo.wtree, ~Granular)) :
          /\ c.typ = MODIFY /\ OldMissing(c)
          /\ HasKey(local.not_in_cache, c.key)
          /\ HasKey(Bucket(local.uncommitted_diff, "modified"), c.key)

\* C7: workspace states of the revision-state iterator are skipped and the
\* head snapshot is the one read under a concrete revision state; when no
\* concrete state is yielded the call raises a failure that is neither the
\* no-commits nor the no-backend failure, and status() raises it.
C7_ConcreteRevision ==
    /\ (pc \in {"committed", "done"} /\ repo.brancher.exc = None) =>
          /\ YieldsRevision
          /\ local.committed_diff = popped(CommittedDiff, "unchanged")
    /\ (repo.wtree_exc = None /\ repo.brancher.exc = None /\ ~YieldsRevision) =>
          /\ pc \in {"start", "uncommitted", "raised"}
          /\ pc = "raised" => /\ ret.exc = "UnboundLocalError"
                              /\ ret.exc \notin ScmFailures

C7_Witness ==
    /\ pc = "raised"
    /\ repo.brancher = [yields |-> <<"workspace">>, exc |-> None]
    /\ ret.exc = "UnboundLocalError"

\* the position of the key of a path in the diff primitive's iteration order
Position(path) == CHOOSE i \in DOMAIN repo.order : repo.order[i] = PathKey(path)

InIterationOrder(paths) ==
    \A i, j \in DOMAIN paths : i < j => Position(paths[i]) < Position(paths[j])

\* C9 as stated: two computations over the same snapshots and SCM status
\* give identical reports, the order of every list included.
C9_IdenticalReports ==
    (pc = "done" /\ prev # <<>>) => ret.value = prev[1]

\* C9 amended: the paths of every classifier bucket are in the iteration
\* order of the diff primitive, and two computations over the same snapshots
\* and SCM status give reports that agree in every field, order included,
\* except that unchanged holds the same paths in an order that may differ.
C9_IdenticalButUnchangedOrder ==
    /\ pc = "done" =>
          /\ InIterationOrder(ret.value.not_in_cache)
          /\ \A name \in DOMAIN ret.value.committed :
                InIterationOrder(ret.value.committed[name])
          /\ \A name \in DOMAIN ret.value.uncommitted :
                InIterationOrder(ret.value.uncommitted[name])
    /\ (pc = "done" /\ prev # <<>>) =>
          /\ ret.value.not_in_cache = prev[1].not_in_cache
          /\ ret.value.committed = prev[1].committed
          /\ ret.value.uncommitted = prev[1].uncommitted
          /\ ret.value.untracked = prev[1].untracked
          /\ ret.value.git = prev[1].git
          /\ Range(ret.value.unchanged) = Range(prev[1].unchanged)
          /\ Len(ret.value.unchanged) = Len(prev[1].unchanged)

C9_Witness ==
    /\ pc = "done" /\ prev # <<>>
    /\ Len(ret.value.unchanged) = 2
    /\ ret.value.unchanged # prev[1].unchanged
    /\ Len(ret.value.not_in_cache) = 2

====
